---- MODULE Spec2Model ----
(***************************************************************************)
(* vmo-pystation: the squelch-gated capture loop of                        *)
(* StationController.run_stream (station_controller.py) and main's loop    *)
(* with the pipeline tasks it creates on the asyncio event loop (main.py). *)
(*                                                                         *)
(* A complex sample is modelled by a signed integer whose absolute value   *)
(* is the sample's magnitude; SQUELCH is an integer in the same unit.      *)
(***************************************************************************)
EXTENDS Integers, Sequences, FiniteSets, TLC

\* ------------------------------------------------------------------ bounds
\* Blocks the source delivers in one run, over all captures.
MaxBlocks == 4
\* Largest configured hangover WAIT_TO_END.
MaxWait == 2
\* Calls of run_stream in one run.
MaxCaptures == 2
\* Longest all-zero array handed to the pipeline.
MaxZeros == 4

\* ------------------------------------------------------- program constants
\* numpy.zeros(10 * VFO_FS): seconds of samples pre-allocated.
PREALLOC_SECONDS == 10

\* (float_array * 32767).astype(numpy.int16)
INT16_SCALE == 32767

\* ------------------------------------------------------------------ inputs
\* Input sample rates: the post-roll int(VFO_FS / 2) is 0, 1 and 2 samples.
FsValues == {1, 2, 4}
SquelchValues == {1, 2}
\* The blocks a source may deliver: silence, a quiet block holding one loud
\* sample (its mean equals SQUELCH = 1), a loud block holding one quiet
\* sample, a loud block of one sample.
Blocks == {<<0>>, <<0, 0, 3>>, <<3, -3, 1, 3>>, <<-3>>}
\* Contents of output/debugging-samples.npy.
DebugFiles == {<<>>, <<3, 0, -3>>}
\* Exceptions a failing source raises out of the async for.
ErrorKinds == {"RuntimeError", "OSError"}

LiveConfigs ==
    [VFO_FS : FsValues, SQUELCH : SquelchValues,
     WAIT_TO_END : 0..MaxWait, DEBUG_MODE : {FALSE}]
DebugConfigs ==
    [VFO_FS : {4}, SQUELCH : {1}, WAIT_TO_END : {MaxWait}, DEBUG_MODE : {TRUE}]

VARIABLES
    cfg,               \* StationController.cfg
    mainPc,            \* where main() is
    running,           \* index of the pipeline task holding the event loop, 0 if none
    srcState,          \* the sample source: "live", "ended", "failed"
    _wte,              \* run_stream: wait-to-end counter
    _lrsi,             \* run_stream: index of the last true squelch trip
    _samples_read,     \* run_stream: samples written
    _isSquelchTripped, \* run_stream: the block's gate state
    _iq_samples,       \* run_stream: the session buffer
    exitBy,            \* how the async for was left: "none", "break", "end"
    iq_samples,        \* main: what run_stream returned
    tasks,             \* the tasks made by asyncio.create_task, in order
    captures,          \* calls of run_stream so far
    delivered,         \* history: the blocks delivered in this run
    written,           \* history: the blocks handed to the buffer write, concatenated
    last,              \* history: the block processed last and the state it met
    pipe               \* the signal in the demodulation pipeline and its stage

vars == <<cfg, mainPc, running, srcState, _wte, _lrsi, _samples_read,
          _isSquelchTripped, _iq_samples, exitBy, iq_samples, tasks,
          captures, delivered, written, last, pipe>>

\* --------------------------------------------------------- pure functions
Abs(x) == IF x < 0 THEN -x ELSE x
Min(a, b) == IF a < b THEN a ELSE b

RECURSIVE SumAbs(_)
SumAbs(s) == IF s = <<>> THEN 0 ELSE Abs(Head(s)) + SumAbs(Tail(s))

Zeros(n) == [i \in 1..n |-> 0]

\* numpy.abs(_readSamples).mean() > SQUELCH, for a non-empty block.
AboveSquelch(b, sq) == SumAbs(b) > sq * Len(b)

\* numpy.where(numpy.abs(_readSamples) > SQUELCH, _readSamples, 0)
GateSamples(b, sq) == [i \in 1..Len(b) |-> IF Abs(b[i]) > sq THEN b[i] ELSE 0]

\* Mutant: the counter is reset only when it is not already running.
NextWte_NoRestart(above, wte, wait) ==
    IF wte > 0 THEN wte - 1 ELSE IF above THEN wait ELSE wte

\* The squelch branch: the counter after a block, (above, _wte) given.
NextWte(above, wte, wait) ==
    IF above THEN wait ELSE IF wte > 0 THEN wte - 1 ELSE wte

\* Mutant: a block kept by the hangover alone is not marked tripped.
Tripped_AboveOnly(above, wte) == above

\* Mutant: the hangover test accepts a counter of zero.
Tripped_AtZero(above, wte) == above \/ wte >= 0

\* The squelch branch: _isSquelchTripped after a block.
Tripped(above, wte) == above \/ wte > 0

\* Mutant: the buffer grows by one sample, not by the block.
Grow_ByOne(buf, end_idx, n) == IF end_idx > Len(buf) THEN buf \o Zeros(1) ELSE buf

\* if end_idx > len(_iq_samples): numpy.append(_iq_samples, zeros(len(block)))
Grow(buf, end_idx, n) == IF end_idx > Len(buf) THEN buf \o Zeros(n) ELSE buf

\* Mutant: the block is written at the start of the buffer.
WriteAt_Start(buf, start, end_idx, blk) ==
    [i \in 1..Len(buf) |-> IF i <= Len(blk) THEN blk[i] ELSE buf[i]]

\* _iq_samples[_samples_read:end_idx] = _readSamples[0 : end_idx - _samples_read]
WriteAt(buf, start, end_idx, blk) ==
    [i \in 1..Len(buf) |->
        IF start < i /\ i <= end_idx THEN blk[i - start] ELSE buf[i]]

\* Mutant: the break does not ask for a recorded sample.
ShouldBreak_NoRead(wte, tripped, read) == wte < 1 /\ ~tripped

\* if _wte < 1 and not _isSquelchTripped and _samples_read > 0: break
ShouldBreak(wte, tripped, read) == wte < 1 /\ ~tripped /\ read > 0

\* int(VFO_FS / 2)
PostRoll(fs) == fs \div 2

\* _iq_samples[: _lrsi + int(VFO_FS / 2)]
OutputSamples(buf, lrsi, fs) == SubSeq(buf, 1, Min(Len(buf), lrsi + PostRoll(fs)))

NoBlock == [blk |-> <<>>, wte0 |-> 0, lrsi0 |-> 0, read0 |-> 0, cap0 |-> 0]

\* The pipeline variable outside a pipeline run.
PipeOff == [stage |-> "off"]

\* ------------------------------------------------------------------- Init
Init ==
    /\ cfg \in LiveConfigs \cup DebugConfigs
    /\ mainPc = "call"
    /\ running = 0
    /\ srcState = "live"
    /\ _wte = 0
    /\ _lrsi = 0
    /\ _samples_read = 0
    /\ _isSquelchTripped = FALSE
    /\ _iq_samples = <<>>
    /\ exitBy = "none"
    /\ iq_samples = <<>>
    /\ tasks = <<>>
    /\ captures = 0
    /\ delivered = <<>>
    /\ written = <<>>
    /\ last = NoBlock
    /\ pipe = PipeOff

\* ---------------------------------------------------------------- actions
\* main calls run_stream: the debug return, or the locals' initial values
\* and the first await of the async for.
StartCapture ==
    /\ UNCHANGED pipe
    /\ mainPc = "call"
    /\ running = 0
    /\ captures < MaxCaptures
    /\ captures' = captures + 1
    /\ last' = NoBlock
    /\ written' = <<>>
    /\ exitBy' = "none"
    /\ IF cfg.DEBUG_MODE
       THEN /\ \E f \in DebugFiles : iq_samples' = f
            /\ mainPc' = "dispatch"
            /\ UNCHANGED <<_wte, _lrsi, _samples_read, _isSquelchTripped, _iq_samples>>
       ELSE /\ _wte' = 0
            /\ _lrsi' = 0
            /\ _samples_read' = 0
            /\ _isSquelchTripped' = FALSE
            /\ _iq_samples' = Zeros(PREALLOC_SECONDS * cfg.VFO_FS)
            /\ mainPc' = "await"
            /\ UNCHANGED iq_samples
    /\ UNCHANGED <<cfg, running, srcState, tasks, delivered>>

\* One pass of the async for body on block b.
RecvBlock(b) ==
    /\ UNCHANGED pipe
    /\ mainPc = "await"
    /\ running = 0
    /\ srcState = "live"
    /\ Len(delivered) < MaxBlocks
    /\ LET above == AboveSquelch(b, cfg.SQUELCH)
           wte1 == NextWte(above, _wte, cfg.WAIT_TO_END)
           trip == Tripped(above, _wte)
           lrsi1 == IF above THEN _samples_read ELSE _lrsi
           gated == GateSamples(b, cfg.SQUELCH)
           end_idx == _samples_read + Len(gated)
           grown == Grow(_iq_samples, end_idx, Len(gated))
           buf1 == IF trip THEN WriteAt(grown, _samples_read, end_idx, gated)
                   ELSE _iq_samples
           read1 == IF trip THEN end_idx ELSE _samples_read
           brk == ShouldBreak(wte1, trip, read1)
       IN /\ _wte' = wte1
          /\ _isSquelchTripped' = trip
          /\ _lrsi' = lrsi1
          /\ _iq_samples' = buf1
          /\ _samples_read' = read1
          /\ written' = IF trip THEN written \o gated ELSE written
          /\ exitBy' = IF brk THEN "break" ELSE "none"
          /\ mainPc' = IF brk THEN "stopping" ELSE "await"
          /\ delivered' = Append(delivered,
                [above |-> above, n |-> Len(b), rec |-> trip,
                 read0 |-> _samples_read, wte0 |-> _wte, cap |-> captures])
          /\ last' = [blk |-> b, wte0 |-> _wte, lrsi0 |-> _lrsi,
                      read0 |-> _samples_read, cap0 |-> Len(_iq_samples)]
    /\ UNCHANGED <<cfg, running, srcState, iq_samples, tasks, captures>>

\* The stream ends: the async for is left without a break.
StreamEnd ==
    /\ UNCHANGED pipe
    /\ mainPc = "await"
    /\ running = 0
    /\ srcState \in {"live", "ended"}
    /\ srcState' = "ended"
    /\ exitBy' = "end"
    /\ mainPc' = "stopping"
    /\ UNCHANGED <<cfg, running, _wte, _lrsi, _samples_read, _isSquelchTripped,
                   _iq_samples, iq_samples, tasks, captures, delivered, written, last>>

\* The stream raises: run_stream propagates it, main catches RuntimeError only.
StreamError(kind) ==
    /\ UNCHANGED pipe
    /\ mainPc = "await"
    /\ running = 0
    /\ srcState' = "failed"
    /\ mainPc' = IF kind = "RuntimeError" THEN "close" ELSE "raised"
    /\ UNCHANGED <<cfg, running, _wte, _lrsi, _samples_read, _isSquelchTripped,
                   _iq_samples, exitBy, iq_samples, tasks, captures, delivered,
                   written, last>>

\* await rtlsdr.stop() returns; run_stream returns the trimmed buffer.
StopStream ==
    /\ UNCHANGED pipe
    /\ mainPc = "stopping"
    /\ running = 0
    /\ iq_samples' = OutputSamples(_iq_samples, _lrsi, cfg.VFO_FS)
    /\ mainPc' = "dispatch"
    /\ UNCHANGED <<cfg, running, srcState, _wte, _lrsi, _samples_read,
                   _isSquelchTripped, _iq_samples, exitBy, tasks, captures,
                   delivered, written, last>>

\* asyncio.create_task(demod_output_and_upload(iq_samples)), then the debug exit.
Dispatch ==
    /\ UNCHANGED pipe
    /\ mainPc = "dispatch"
    /\ running = 0
    /\ tasks' = Append(tasks, [samples |-> iq_samples, stage |-> "pending",
                               cap |-> captures])
    /\ mainPc' = IF cfg.DEBUG_MODE THEN "close" ELSE "call"
    /\ UNCHANGED <<cfg, running, srcState, _wte, _lrsi, _samples_read,
                   _isSquelchTripped, _iq_samples, exitBy, iq_samples, captures,
                   delivered, written, last>>

\* stnCtrl.close(); main returns.
Close ==
    /\ UNCHANGED pipe
    /\ mainPc = "close"
    /\ running = 0
    /\ mainPc' = "returned"
    /\ UNCHANGED <<cfg, running, srcState, _wte, _lrsi, _samples_read,
                   _isSquelchTripped, _iq_samples, exitBy, iq_samples, tasks,
                   captures, delivered, written, last, pipe>>

\* The event loop starts the oldest pending task while main is suspended:
\* demodulate, decimate, plot, quantize and save the mp3 (no await in between).
TaskStart(k) ==
    /\ UNCHANGED pipe
    /\ mainPc \in {"await", "stopping"}
    /\ running = 0
    /\ k \in 1..Len(tasks)
    /\ tasks[k].stage = "pending"
    /\ \A j \in 1..(k - 1) : tasks[j].stage # "pending"
    /\ tasks' = [tasks EXCEPT ![k].stage = "upload"]
    /\ running' = k
    /\ UNCHANGED <<cfg, mainPc, srcState, _wte, _lrsi, _samples_read,
                   _isSquelchTripped, _iq_samples, exitBy, iq_samples, captures,
                   delivered, written, last>>

\* await api.upload_clip(...): a blocking requests.post, then the task ends,
\* done or with the exception upload_clip raised.
TaskUpload(k, ok) ==
    /\ UNCHANGED pipe
    /\ running = k
    /\ k \in 1..Len(tasks)
    /\ tasks[k].stage = "upload"
    /\ tasks' = [tasks EXCEPT ![k].stage = IF ok THEN "done" ELSE "failed"]
    /\ running' = 0
    /\ UNCHANGED <<cfg, mainPc, srcState, _wte, _lrsi, _samples_read,
                   _isSquelchTripped, _iq_samples, exitBy, iq_samples, captures,
                   delivered, written, last>>

\* asyncio.run(main()) once main has returned or raised: every task that has
\* not finished is cancelled before the loop is closed.
CancelAll(ts) ==
    [k \in 1..Len(ts) |->
        IF ts[k].stage \in {"done", "failed"} THEN ts[k]
        ELSE [ts[k] EXCEPT !.stage = "cancelled"]]

AsyncioRunExit ==
    /\ UNCHANGED pipe
    /\ mainPc \in {"returned", "raised"}
    /\ running = 0
    /\ tasks' = CancelAll(tasks)
    /\ mainPc' = "exited"
    /\ UNCHANGED <<cfg, running, srcState, _wte, _lrsi, _samples_read,
                   _isSquelchTripped, _iq_samples, exitBy, iq_samples, captures,
                   delivered, written, last>>

Next ==
    \/ StartCapture
    \/ \E b \in Blocks : RecvBlock(b)
    \/ StreamEnd
    \/ \E kind \in ErrorKinds : StreamError(kind)
    \/ StopStream
    \/ Dispatch
    \/ Close
    \/ \E k \in 1..MaxCaptures : TaskStart(k)
    \/ \E k \in 1..MaxCaptures, ok \in BOOLEAN : TaskUpload(k, ok)
    \/ AsyncioRunExit

\* ------------------------------------------------------------- histories
\* The blocks of the capture in progress (the current run_stream call).
Hist == SelectSeq(delivered, LAMBDA e : e.cap = captures)

RECURSIVE SumLen(_)
\* The summed length of the blocks of h.
SumLen(h) == IF h = <<>> THEN 0 ELSE Head(h).n + SumLen(Tail(h))

IsAbove(e) == e.above
IsRecorded(e) == e.rec
ActiveLen(h) == SumLen(SelectSeq(h, IsAbove))
RecordedLen(h) == SumLen(SelectSeq(h, IsRecorded))

\* h is idle blocks, then one contiguous run of above-threshold blocks, then
\* idle blocks.
SingleRun(h) ==
    \E i \in 1..Len(h) : \E j \in i..Len(h) :
        \A k \in 1..Len(h) : h[k].above <=> (i <= k /\ k <= j)

\* The number of blocks of h after its last above-threshold block.
TrailingIdle(h) ==
    Len(h) - CHOOSE j \in 0..Len(h) :
                /\ j > 0 => h[j].above
                /\ \A k \in (j + 1)..Len(h) : ~h[k].above

Live == ~cfg.DEBUG_MODE /\ captures > 0

\* ------------------------------------------------------------------ C1
\* C1: every block whose mean absolute amplitude is above SQUELCH, whatever
\* the counter was before it, is recorded (its gated samples are in the
\* buffer at the position it met), sets _wte to WAIT_TO_END and sets _lrsi
\* to that position.
C1_AboveThresholdTrips ==
    (last # NoBlock /\ SumAbs(last.blk) > cfg.SQUELCH * Len(last.blk)) =>
        /\ _isSquelchTripped
        /\ _wte = cfg.WAIT_TO_END
        /\ _lrsi = last.read0
        /\ _samples_read = last.read0 + Len(last.blk)
        /\ Len(_iq_samples) >= _samples_read
        /\ \A i \in 1..Len(last.blk) :
              _iq_samples[last.read0 + i] =
                 IF Abs(last.blk[i]) > cfg.SQUELCH THEN last.blk[i] ELSE 0

\* An above-threshold block met a running counter that was below its maximum
\* and a buffer that already held samples.
C1_Witness ==
    /\ last # NoBlock
    /\ SumAbs(last.blk) > cfg.SQUELCH * Len(last.blk)
    /\ last.wte0 > 0
    /\ last.wte0 < cfg.WAIT_TO_END
    /\ last.read0 > 0

\* ------------------------------------------------------------------ C2
\* C2: the loop is left by its break exactly on the first block of the
\* capture that is idle (not above SQUELCH, counter at zero) and meets a
\* buffer holding at least one sample; no earlier block of the capture is
\* such a block, and the break is never taken on another block.
C2_FinalizeOnFirstIdle ==
    Live =>
        /\ \A i \in 1..Len(Hist) :
              (~Hist[i].above /\ Hist[i].wte0 < 1 /\ Hist[i].read0 > 0)
                 <=> (i = Len(Hist) /\ exitBy = "break")
        /\ exitBy = "break" => Hist # <<>>

\* A capture with a leading idle block, a recorded block, a hangover block
\* and the idle block that ended it.
C2_Witness ==
    /\ Live
    /\ exitBy = "break"
    /\ Len(Hist) >= 4
    /\ ~Hist[1].above
    /\ \E i \in 1..Len(Hist) : ~Hist[i].above /\ Hist[i].wte0 > 0

\* ------------------------------------------------------------------ C3
\* C3: a capture of idle blocks, one run of above-threshold blocks and the
\* idle blocks that finalize it returns as many samples as the active blocks
\* hold plus the post-roll int(VFO_FS / 2), the post-roll bounded by the
\* samples recorded after the last active block.
C3_SingleRunLength ==
    (Live /\ mainPc = "dispatch" /\ exitBy = "break" /\ SingleRun(Hist)) =>
        Len(iq_samples) =
            ActiveLen(Hist)
              + Min(PostRoll(cfg.VFO_FS), _samples_read - ActiveLen(Hist))

\* ------------------------------------------------------------------ C4
\* C4: a source of idle blocks, N above-threshold blocks and more than
\* WAIT_TO_END idle blocks gives exactly one session, as long as the N active
\* and the WAIT_TO_END hangover blocks plus the post-roll, and nothing is
\* handed to the pipeline before or after it.
C4_OneSessionOfActivePlusHangover ==
    (Live /\ SingleRun(delivered) /\ TrailingIdle(delivered) > cfg.WAIT_TO_END) =>
        /\ Len(tasks) <= 1
        /\ \A k \in 1..Len(tasks) :
              Len(tasks[k].samples) =
                 RecordedLen(delivered) + PostRoll(cfg.VFO_FS)

\* ------------------------------------------------------------------ C5
\* C5: the buffer is never shorter than the samples written; a write that
\* would pass the end of the buffer finds it grown by at least the block's
\* length, and the buffer is never shorter than before the block.
C5_CapacityCoversWritten ==
    Live =>
        /\ Len(_iq_samples) >= _samples_read
        /\ Len(_iq_samples) >= last.cap0
        /\ (_isSquelchTripped /\ last.read0 + Len(last.blk) > last.cap0) =>
              Len(_iq_samples) >= last.cap0 + Len(last.blk)

\* A recorded block passed the end of the pre-allocated buffer.
C5_Witness ==
    /\ Live
    /\ last # NoBlock
    /\ _isSquelchTripped
    /\ last.read0 + Len(last.blk) > last.cap0
    /\ last.read0 > 0

\* ------------------------------------------------------------------ C6
\* C6: the first _samples_read positions of the buffer hold the recorded
\* blocks (each as it was handed to the write, after the per-sample gate)
\* concatenated in stream order, whatever writes and growths came later.
C6_BufferHoldsBlocksInOrder ==
    Live =>
        /\ Len(_iq_samples) >= _samples_read
        /\ Len(written) = _samples_read
        /\ \A i \in 1..Len(written) : _iq_samples[i] = written[i]

\* Three blocks were recorded and the third made the buffer grow.
C6_Witness ==
    /\ Live
    /\ Len(SelectSeq(Hist, IsRecorded)) >= 3
    /\ Len(_iq_samples) > PREALLOC_SECONDS * cfg.VFO_FS
    /\ \E i \in 1..Len(written) : written[i] # 0

\* ------------------------------------------------------------------ C7
\* Whether a block of the capture that task k came from exceeded SQUELCH.
TaskTripped(k) ==
    \E i \in 1..Len(delivered) :
        delivered[i].cap = tasks[k].cap /\ delivered[i].above

\* C7: a capture in which no block exceeded SQUELCH returns an empty array
\* and main creates no pipeline task for it.
C7_NoTripNoDemodulation ==
    Live =>
        /\ (mainPc = "dispatch" /\ \A i \in 1..Len(Hist) : ~Hist[i].above)
              => iq_samples = <<>>
        /\ \A k \in 1..Len(tasks) : TaskTripped(k)

\* ------------------------------------------------------------------ C8
\* C8: while a pipeline task is unfinished and the source has a block for
\* the waiting capture loop, the loop can take the block.
C8_IngestionNeverWaitsForPipeline ==
    (/\ mainPc = "await"
     /\ srcState = "live"
     /\ Len(delivered) < MaxBlocks
     /\ \E k \in 1..Len(tasks) : tasks[k].stage \in {"pending", "upload"})
        => ENABLED (\E b \in Blocks : RecvBlock(b))

\* ------------------------------------------------------------------ C9
\* C9: once the source has ended or failed, main does not wait for a block
\* of another capture.
C9_NoCaptureAfterExhaustion ==
    srcState # "live" => mainPc # "await"

LoopStep(s, b, c) ==
    LET above == AboveSquelch(b, c.SQUELCH)
        wte1 == NextWte(above, s.wte, c.WAIT_TO_END)
        trip == Tripped(above, s.wte)
        gated == GateSamples(b, c.SQUELCH)
        end_idx == s.read + Len(gated)
        grown == Grow(s.buf, end_idx, Len(gated))
        read1 == IF trip THEN end_idx ELSE s.read
    IN [wte |-> wte1,
        lrsi |-> IF above THEN s.read ELSE s.lrsi,
        read |-> read1,
        buf |-> IF trip THEN WriteAt(grown, s.read, end_idx, gated) ELSE s.buf,
        done |-> ShouldBreak(wte1, trip, read1)]

RECURSIVE LoopOver(_, _, _)
\* The async for over the blocks bs, left at the break or at their end.
LoopOver(s, bs, c) ==
    IF bs = <<>> \/ s.done THEN s
    ELSE LoopOver(LoopStep(s, Head(bs), c), Tail(bs), c)

\* What the live path of run_stream returns for a source delivering bs.
LiveResult(bs, c) ==
    LET s0 == [wte |-> 0, lrsi |-> 0, read |-> 0,
               buf |-> Zeros(PREALLOC_SECONDS * c.VFO_FS), done |-> FALSE]
        s == LoopOver(s0, bs, c)
    IN OutputSamples(s.buf, s.lrsi, c.VFO_FS)

\* The samples f cut into blocks of k samples, the last one shorter.
Chunks(f, k) ==
    [i \in 1..((Len(f) + k - 1) \div k) |->
        SubSeq(f, (i - 1) * k + 1, Min(i * k, Len(f)))]

\* C12: what run_stream returns in debug mode for a non-empty pre-recorded
\* array is what the live path returns when a source delivers the same
\* samples, in blocks of any one size.
C12_DebugEqualsLive ==
    (cfg.DEBUG_MODE /\ mainPc = "dispatch" /\ iq_samples # <<>>) =>
        \A k \in 1..Len(iq_samples) :
            iq_samples = LiveResult(Chunks(iq_samples, k), cfg)

\* ----------------------------------------------------------------- C13
\* The index in h of its last above-threshold block, 0 if it has none.
LastAbove(h) ==
    CHOOSE j \in 0..Len(h) :
        /\ j > 0 => h[j].above
        /\ \A k \in (j + 1)..Len(h) : ~h[k].above

\* The blocks of h recorded after its last above-threshold block.
HangoverBlocks(h) ==
    Cardinality({k \in (LastAbove(h) + 1)..Len(h) : h[k].rec})

\* C13: a block not above SQUELCH that meets _wte > 0 takes exactly 1 from
\* _wte and is recorded, one that meets _wte = 0 is not recorded and leaves
\* _wte, _samples_read and the buffer as they were; neither changes _lrsi.
\* _wte stays in 0..WAIT_TO_END, at most WAIT_TO_END blocks are recorded after
\* the last above-threshold block, and exactly WAIT_TO_END when the capture
\* is finalized.
C13_BelowThresholdBlock ==
    Live =>
        /\ _wte \in 0..cfg.WAIT_TO_END
        /\ (last # NoBlock /\ SumAbs(last.blk) <= cfg.SQUELCH * Len(last.blk)) =>
              /\ _lrsi = last.lrsi0
              /\ last.wte0 > 0 =>
                    /\ _wte = last.wte0 - 1
                    /\ _isSquelchTripped
                    /\ _samples_read = last.read0 + Len(last.blk)
                    /\ Len(_iq_samples) >= _samples_read
                    /\ \A i \in 1..Len(last.blk) :
                          _iq_samples[last.read0 + i] =
                             IF Abs(last.blk[i]) > cfg.SQUELCH
                             THEN last.blk[i] ELSE 0
              /\ last.wte0 = 0 =>
                    /\ _wte = 0
                    /\ ~_isSquelchTripped
                    /\ _samples_read = last.read0
                    /\ Len(_iq_samples) = last.cap0
        /\ HangoverBlocks(Hist) <= cfg.WAIT_TO_END
        /\ exitBy = "break" => HangoverBlocks(Hist) = cfg.WAIT_TO_END

\* A capture was finalized after two hangover blocks, the second of which
\* held a sample louder than SQUELCH.
C13_Witness ==
    /\ Live
    /\ exitBy = "break"
    /\ HangoverBlocks(Hist) = 2
    /\ last.wte0 = 0
    /\ \E i \in 1..Len(written) : i > 1 /\ written[i] # 0

\* ----------------------------------------------------------------- C14
\* C14: a finalized capture returns no more samples than it recorded.
C14_ReturnsOnlyRecorded ==
    (Live /\ mainPc = "dispatch" /\ exitBy = "break") =>
        Len(iq_samples) <= _samples_read

\* ----------------------------------------------------------------- C15
\* C15: when the buffer holds samples, a block of the capture exceeded
\* SQUELCH, _lrsi is the position the last such block was written at, and
\* it lies below _samples_read.
C15_RecordedImpliesTrueTrip ==
    (Live /\ _samples_read > 0) =>
        /\ LastAbove(Hist) > 0
        /\ _lrsi = Hist[LastAbove(Hist)].read0
        /\ _lrsi < _samples_read

\* A capture whose leading idle block was not recorded holds hangover
\* samples after a true trip that was not its first recorded block.
C15_Witness ==
    /\ Live
    /\ Hist # <<>>
    /\ ~Hist[1].rec
    /\ _samples_read > 0
    /\ _lrsi > 0
    /\ HangoverBlocks(Hist) > 0

\* ------------------------------------------------------- the pipeline
\* SignalProcessor on an all-zero complex array.  A sample is the pair
\* [u, e] over the signal's denominator den: the value (u + e * 1e-10) / den,
\* computed to first order in 1e-10; the imaginary part of the input is 0
\* and stays 0.  scipy's filters are not part of the repository: each is a
\* causal FIR filter here, linear and zero for a zero input like them.
Val(u, e) == [u |-> u, e |-> e]
ZeroVal == Val(0, 0)
Sig(xs, den) == [xs |-> xs, den |-> den, nan |-> FALSE]

Sgn(v) ==
    IF v.u > 0 \/ (v.u = 0 /\ v.e > 0) THEN 1
    ELSE IF v = ZeroVal THEN 0 ELSE -1
AbsVal(v) == IF Sgn(v) < 0 THEN Val(-v.u, -v.e) ELSE v
LessVal(a, b) == a.u < b.u \/ (a.u = b.u /\ a.e < b.e)

RECURSIVE SumSeq(_)
SumSeq(t) == IF t = <<>> THEN 0 ELSE Head(t) + SumSeq(Tail(t))

\* signal.butter(2, 3e3, "lowpass", fs): a lowpass of unit gain at 0 Hz.
LowpassTaps == <<1, 2, 1>>
\* firwin(1024, [low, high], pass_zero=False), up to the scale that
\* normailize_signal cancels: no gain at 0 Hz, a first tap that is not 0.
BandpassTapSets == {<<1, -1>>, <<1, 1, -2>>}
\* The anti-aliasing filter of scipy.signal.decimate, of unit gain at 0 Hz.
AntiAliasTaps == <<1, 1>>
\* int(from_rate / to_rate)
DecimationFactors == {1, 2, 3}
\* What astype(numpy.int16) makes of a NaN: not defined by numpy.
NanAsInt16 == {0, -32768}

\* plot_waterfall: samples += 1e-10, in place, on the caller's array.
PlotWaterfall(sig) ==
    [sig EXCEPT !.xs = [i \in 1..Len(sig.xs) |->
                           Val(sig.xs[i].u, sig.xs[i].e + sig.den)]]

RECURSIVE FirSum(_, _, _, _)
\* taps[k] * xs[n - k + 1] summed over k, k-th tap onwards.
FirSum(taps, xs, n, k) ==
    IF k > Len(taps) \/ k > n THEN ZeroVal
    ELSE LET r == FirSum(taps, xs, n, k + 1)
             x == xs[n - k + 1]
         IN Val(taps[k] * x.u + r.u, taps[k] * x.e + r.e)

\* lfilter(taps / gain, 1, samples)
LFilter(taps, gain, sig) ==
    [sig EXCEPT !.xs = [n \in 1..Len(sig.xs) |-> FirSum(taps, sig.xs, n, 1)],
                !.den = sig.den * gain]

\* numpy.where(numpy.abs(fm_samples) > squelch, fm_samples, 0)
GateSignal(sig, sq) ==
    [sig EXCEPT !.xs = [i \in 1..Len(sig.xs) |->
        IF LessVal(Val(sq * sig.den, 0), AbsVal(sig.xs[i]))
        THEN sig.xs[i] ELSE ZeroVal]]

\* numpy.arctan2(0, x) in half turns: pi for x < 0, 0 otherwise.
Phase(v) == IF Sgn(v) < 0 THEN 1 ELSE 0

\* numpy.diff(numpy.unwrap(phi) / (2 * pi * df)) with df = 1 and fc = 0: a
\* step of half a turn is left as it is by unwrap and gives 1/2.
Discriminator(sig) ==
    Sig([i \in 1..(Len(sig.xs) - 1) |->
            Val(Phase(sig.xs[i + 1]) - Phase(sig.xs[i]), 0)], 2)

\* bandpass_voice: lfilter(firwin(...), 1, samples)
BandpassVoice(sig, taps) == LFilter(taps, 1, sig)

RECURSIVE MaxAbs(_)
\* numpy.max(numpy.abs(samples)) of a non-empty array.
MaxAbs(xs) ==
    IF Len(xs) = 1 THEN AbsVal(xs[1])
    ELSE LET m == MaxAbs(Tail(xs))
             a == AbsVal(Head(xs))
         IN IF LessVal(m, a) THEN a ELSE m

\* normailize_signal: samples /= numpy.max(numpy.abs(samples)); 0 / 0 is NaN.
Normalize(sig) ==
    LET m == MaxAbs(sig.xs)
        n == Len(sig.xs)
    IN IF m = ZeroVal THEN [sig EXCEPT !.nan = TRUE]
       ELSE IF m.u = 0
       THEN Sig([i \in 1..n |-> Val(sig.xs[i].e, 0)], m.e)
       ELSE Sig([i \in 1..n |->
                   Val(sig.xs[i].u * m.u,
                       sig.xs[i].e * m.u - sig.xs[i].u * m.e)], m.u * m.u)

\* fm_demodulate up to the normalization (which raises on an empty array).
Demodulated(iq, sq, taps) ==
    BandpassVoice(
        PlotWaterfall(
            Discriminator(
                GateSignal(LFilter(LowpassTaps, SumSeq(LowpassTaps),
                                   PlotWaterfall(iq)), sq))), taps)

\* decimate(samples, q): filter, then every q-th sample.
Decimate(sig, q) ==
    LET f == LFilter(AntiAliasTaps, SumSeq(AntiAliasTaps), sig)
    IN [f EXCEPT !.xs = [i \in 1..((Len(f.xs) + q - 1) \div q) |->
                            f.xs[(i - 1) * q + 1]]]

\* numpy.clip(x, -1.0, 1.0), then (x * 32767).astype(numpy.int16), which
\* drops the fraction.
Quantize(v, den) ==
    LET c == IF LessVal(Val(den, 0), v) THEN Val(den, 0)
             ELSE IF LessVal(v, Val(-den, 0)) THEN Val(-den, 0) ELSE v
        a == Abs(INT16_SCALE * c.u)
        inward == a % den = 0 /\ c.e # 0 /\ (c.e > 0) # (c.u > 0)
    IN IF a = 0 THEN 0
       ELSE (IF c.u > 0 THEN 1 ELSE -1)
              * (IF inward THEN (a \div den) - 1 ELSE a \div den)

captureVars == <<cfg, mainPc, running, srcState, _wte, _lrsi, _samples_read,
                 _isSquelchTripped, _iq_samples, exitBy, iq_samples, tasks,
                 captures, delivered, written, last>>

\* demod_output_and_upload is handed an all-zero array.
InitPipeline ==
    /\ cfg \in LiveConfigs
    /\ mainPc = "call"
    /\ running = 0
    /\ srcState = "live"
    /\ _wte = 0
    /\ _lrsi = 0
    /\ _samples_read = 0
    /\ _isSquelchTripped = FALSE
    /\ _iq_samples = <<>>
    /\ exitBy = "none"
    /\ iq_samples = <<>>
    /\ tasks = <<>>
    /\ captures = 0
    /\ delivered = <<>>
    /\ written = <<>>
    /\ last = NoBlock
    /\ \E n \in 0..MaxZeros, q \in DecimationFactors, t \in BandpassTapSets :
          pipe = [stage |-> "input", sig |-> Sig([i \in 1..n |-> ZeroVal], 1),
                  q |-> q, taps |-> t, out |-> <<>>]

\* sigProc.fm_demodulate(iq_samples, SQUELCH, VFO_FS)
FmDemodulate ==
    /\ pipe.stage = "input"
    /\ LET d == Demodulated(pipe.sig, cfg.SQUELCH, pipe.taps)
       IN IF d.xs = <<>>
          THEN pipe' = [pipe EXCEPT !.stage = "raised", !.sig = d]
          ELSE pipe' = [pipe EXCEPT !.stage = "fm_out",
                                    !.sig = PlotWaterfall(Normalize(d))]
    /\ UNCHANGED captureVars

\* sigProc.decimate_samples(VFO_FS, OUT_FILE_FS, ...)
DecimateSamples ==
    /\ pipe.stage = "fm_out"
    /\ pipe' = [pipe EXCEPT !.stage = "decimated",
                            !.sig = Decimate(pipe.sig, pipe.q)]
    /\ UNCHANGED captureVars

\* sigProc.run_plots(demodulated_resamped, VFO_FS)
RunPlots ==
    /\ pipe.stage = "decimated"
    /\ pipe' = [pipe EXCEPT !.stage = "plotted", !.sig = PlotWaterfall(pipe.sig)]
    /\ UNCHANGED captureVars

\* sigProc.float32_to_int16(demodulated_resamped)
Float32ToInt16 ==
    /\ pipe.stage = "plotted"
    /\ IF pipe.sig.nan
       THEN \E g \in NanAsInt16 :
               pipe' = [pipe EXCEPT !.stage = "int16",
                                    !.out = [i \in 1..Len(pipe.sig.xs) |-> g]]
       ELSE pipe' = [pipe EXCEPT !.stage = "int16",
                        !.out = [i \in 1..Len(pipe.sig.xs) |->
                                    Quantize(pipe.sig.xs[i], pipe.sig.den)]]
    /\ UNCHANGED captureVars

NextPipeline ==
    \/ FmDemodulate
    \/ DecimateSamples
    \/ RunPlots
    \/ Float32ToInt16

\* ----------------------------------------------------------------- C11
\* C11: for an all-zero input of any length no stage of the pipeline raises,
\* and the output of fm_demodulate, of decimate_samples and of
\* float32_to_int16 is all zero, with no NaN in it.
C11_AllZeroInputAllZeroOutput ==
    /\ pipe.stage # "raised"
    /\ pipe.stage \in {"fm_out", "decimated", "plotted"} =>
          /\ ~pipe.sig.nan
          /\ \A i \in 1..Len(pipe.sig.xs) : pipe.sig.xs[i].u = 0
    /\ pipe.stage \in {"fm_out", "decimated"} =>
          \A i \in 1..Len(pipe.sig.xs) : pipe.sig.xs[i] = ZeroVal
    /\ pipe.stage = "int16" =>
          \A i \in 1..Len(pipe.out) : pipe.out[i] = 0

Spec == Init /\ [][Next]_vars

SpecPipeline == InitPipeline /\ [][NextPipeline]_vars
====
